---- MODULE Spec2Model ----
(***************************************************************************)
(* A model of src/index.js (lines 1-183): NetConn, CryptoComm,             *)
(* TrannyServer and TrannyClient.                                          *)
(*                                                                         *)
(* One server process holds a TrannyServer.  Each connection c of Conns    *)
(* has a remote peer (a TrannyClient, or a party writing frames of its     *)
(* own), a stream of frames towards the server, and on the server a        *)
(* socket, a NetConn and, once the first frame has arrived, a CryptoComm.  *)
(*                                                                         *)
(* Bytes are 0..255.  A text is the sequence of its ASCII codes.            *)
(*                                                                         *)
(* Spec and FairSpec are the server with its connections.  BoxSpec is one  *)
(* envelope on its way from a sending CryptoComm to a receiving one.       *)
(***************************************************************************)
EXTENDS Integers, Sequences, FiniteSets, TLC

\* ------------------------------------------------------------- bounds
\* messages sent, over all connections and both sides
MaxSend == 2
\* frames the raw peers write, over all connections
MaxRaw == 1
\* destroy () calls the application makes on one channel
MaxDestroy == 2

\* ---------------------------------------------------- program constants
\* nacl.box.nonceLength
NonceLength == 24
\* length of nacl public and secret keys
KeyLength == 32
\* nacl.box.overheadLength: the authenticator in front of the ciphertext
OverheadLength == 16

Conns == {1, 2}
\* the connections whose peer, path and socket may misbehave; the other
\* connection is a TrannyClient built with the server's key, beside them
Exposed == {1}

\* ------------------------------------------------------------ helpers
\* s[i] + ... + s[Len(s)]
RECURSIVE Sum(_, _)
Sum(s, i) == IF i > Len(s) THEN 0 ELSE s[i] + Sum(s, i + 1)

\* i * s[i] + ... + Len(s) * s[Len(s)]
RECURSIVE WSum(_, _)
WSum(s, i) == IF i > Len(s) THEN 0 ELSE i * s[i] + WSum(s, i + 1)

Rep(n, b) == [i \in 1..n |-> b]

\* bit j (0 = lowest) of x flipped
FlipBit(x, j) == IF (x \div (2 ^ j)) % 2 = 0 THEN x + 2 ^ j ELSE x - 2 ^ j

\* ------------------------------------------------------- text and JSON
\* A text is the sequence of its ASCII codes: Buffer.from (string) and
\* Buffer.toString () are then the identity on the byte sequence, for the
\* ASCII texts JSON.stringify produces here.
QUOTE == 34
BACKSLASH == 92
LBRACE == 123
RBRACE == 125
COLON == 58
COMMA == 44
EQUALS == 61

\* "data" and "nonce"
KeyData == <<100, 97, 116, 97>>
KeyNonce == <<110, 111, 110, 99, 101>>
\* null
LitNull == <<110, 117, 108, 108>>

Tok(t, v) == [t |-> t, v |-> v]
Quoted(s) == <<QUOTE>> \o s \o <<QUOTE>>

\* JSON.stringify ({ data : d, nonce : n }) of two base64 strings, which
\* hold no character that needs escaping
JSONStringify(d, n) ==
  <<LBRACE>> \o Quoted(KeyData) \o <<COLON>> \o Quoted(d) \o <<COMMA>>
  \o Quoted(KeyNonce) \o <<COLON>> \o Quoted(n) \o <<RBRACE>>

IsHex(c) == c \in (48..57) \cup (65..70) \cup (97..102)
\* the characters that may follow a backslash: " \ / b f n r t
SimpleEscapes == {34, 92, 47, 98, 102, 110, 114, 116}

\* the index of the quote closing the string whose content starts at i,
\* 0 when the string is not closed or holds what JSON rejects
RECURSIVE StrEnd(_, _)
StrEnd(b, i) ==
  IF i > Len(b) THEN 0
  ELSE IF b[i] = QUOTE THEN i
  ELSE IF b[i] < 32 THEN 0
  ELSE IF b[i] = BACKSLASH THEN
    IF i + 1 <= Len(b) /\ b[i + 1] \in SimpleEscapes THEN StrEnd(b, i + 2)
    ELSE IF i + 5 <= Len(b) /\ b[i + 1] = 117
            /\ \A j \in (i + 2)..(i + 5) : IsHex(b[j]) THEN StrEnd(b, i + 6)
    ELSE 0
  ELSE StrEnd(b, i + 1)

\* the characters of a string's content; an escape is one character, kept
\* when it is " \ or / and otherwise one outside every alphabet used here
RECURSIVE Unescape(_, _, _)
Unescape(b, i, e) ==
  IF i > e THEN <<>>
  ELSE IF b[i] = BACKSLASH THEN
    IF b[i + 1] = 117 THEN <<0>> \o Unescape(b, i + 6, e)
    ELSE <<IF b[i + 1] \in {34, 92, 47} THEN b[i + 1] ELSE 0>>
         \o Unescape(b, i + 2, e)
  ELSE <<b[i]>> \o Unescape(b, i + 1, e)

RECURSIVE DigitsEnd(_, _)
DigitsEnd(b, i) ==
  IF i <= Len(b) /\ b[i] \in 48..57 THEN DigitsEnd(b, i + 1) ELSE i

\* the tokens of a text, ending with a "bad" token where JSON.parse would
\* stop with a SyntaxError; arrays and nested objects are not lexed
RECURSIVE Lex(_, _)
Lex(b, i) ==
  IF i > Len(b) THEN <<>>
  ELSE IF b[i] \in {32, 9, 10, 13} THEN Lex(b, i + 1)
  ELSE IF b[i] = LBRACE THEN <<Tok("{", <<>>)>> \o Lex(b, i + 1)
  ELSE IF b[i] = RBRACE THEN <<Tok("}", <<>>)>> \o Lex(b, i + 1)
  ELSE IF b[i] = COLON THEN <<Tok(":", <<>>)>> \o Lex(b, i + 1)
  ELSE IF b[i] = COMMA THEN <<Tok(",", <<>>)>> \o Lex(b, i + 1)
  ELSE IF b[i] = QUOTE THEN
    LET e == StrEnd(b, i + 1) IN
    IF e = 0 THEN <<Tok("bad", <<>>)>>
    ELSE <<Tok("str", Unescape(b, i + 1, e - 1))>> \o Lex(b, e + 1)
  ELSE IF b[i] \in 48..57 THEN <<Tok("lit", <<>>)>> \o Lex(b, DigitsEnd(b, i))
  ELSE IF i + 3 <= Len(b) /\ SubSeq(b, i, i + 3) = LitNull THEN
    <<Tok("null", <<>>)>> \o Lex(b, i + 4)
  ELSE <<Tok("bad", <<>>)>>

\* the members "key" : value , ... } from token i on
RECURSIVE ParseMembers(_, _)
ParseMembers(t, i) ==
  IF i + 3 > Len(t) \/ t[i].t # "str" \/ t[i + 1].t # ":"
     \/ t[i + 2].t \notin {"str", "lit", "null"}
  THEN [ok |-> FALSE, members |-> <<>>]
  ELSE IF t[i + 3].t = "}" THEN
    [ok |-> i + 3 = Len(t), members |-> <<[key |-> t[i].v, val |-> t[i + 2]]>>]
  ELSE IF t[i + 3].t = "," THEN
    LET rest == ParseMembers(t, i + 4) IN
    [ok |-> rest.ok,
     members |-> <<[key |-> t[i].v, val |-> t[i + 2]]>> \o rest.members]
  ELSE [ok |-> FALSE, members |-> <<>>]

\* JSON.parse (text): ok is FALSE for a SyntaxError; a value that is not an
\* object has kind "str", "lit" or "null" and no members
JSONParse(b) ==
  LET t == Lex(b, 1) IN
  IF Len(t) = 0 THEN [ok |-> FALSE, kind |-> "none", members |-> <<>>]
  ELSE IF Len(t) = 1 /\ t[1].t \in {"str", "lit", "null"} THEN
    [ok |-> TRUE, kind |-> t[1].t, members |-> <<>>]
  ELSE IF t[1].t # "{" THEN [ok |-> FALSE, kind |-> "none", members |-> <<>>]
  ELSE IF Len(t) = 2 /\ t[2].t = "}" THEN
    [ok |-> TRUE, kind |-> "obj", members |-> <<>>]
  ELSE LET m == ParseMembers(t, 2) IN
    [ok |-> m.ok, kind |-> IF m.ok THEN "obj" ELSE "none", members |-> m.members]

\* value.key: the last member of that name, or undefined
Prop(value, key) ==
  LET hits == {i \in 1..Len(value.members) : value.members[i].key = key} IN
  IF hits = {} THEN Tok("undefined", <<>>)
  ELSE value.members[CHOOSE i \in hits : \A j \in hits : j <= i].val

\* ------------------------------------------------------------- base64
\* the character of a 6-bit value in the base64 alphabet
B64Char(v) ==
  IF v < 26 THEN v + 65 ELSE IF v < 52 THEN v + 71
  ELSE IF v < 62 THEN v - 4 ELSE IF v = 62 THEN 43 ELSE 47

\* the 6-bit value of a character, 64 for one outside the alphabet
B64Index(c) ==
  IF c \in 65..90 THEN c - 65 ELSE IF c \in 97..122 THEN c - 71
  ELSE IF c \in 48..57 THEN c + 4 ELSE IF c = 43 THEN 62
  ELSE IF c = 47 THEN 63 ELSE 64

\* Buffer.toString ('base64')
B64Encode(b) ==
  LET n == Len(b)
      byte(i) == IF i <= n THEN b[i] ELSE 0
      sextet(g, k) ==
        LET x == byte(3 * g + 1)
            y == byte(3 * g + 2)
            z == byte(3 * g + 3)
        IN  CASE k = 1 -> x \div 4
              [] k = 2 -> (x % 4) * 16 + y \div 16
              [] k = 3 -> (y % 16) * 4 + z \div 64
              [] OTHER -> z % 64
  IN [i \in 1..(4 * ((n + 2) \div 3)) |->
        LET g == (i - 1) \div 4
            k == ((i - 1) % 4) + 1
        IN  IF 3 * g + k - 1 > n THEN EQUALS ELSE B64Char(sextet(g, k))]

\* the 6-bit values a base64 decoder reads: it stops at the first '=' and
\* skips a character outside the alphabet
B64Legal(s) ==
  LET pads == {i \in 1..Len(s) : s[i] = EQUALS}
      stop == IF pads = {} THEN Len(s) + 1
              ELSE CHOOSE i \in pads : \A j \in pads : i <= j
      read == SelectSeq(SubSeq(s, 1, stop - 1), LAMBDA c : B64Index(c) < 64)
  IN [i \in 1..Len(read) |-> B64Index(read[i])]

\* Buffer.from (text, 'base64')
B64Decode(s) ==
  LET q == B64Legal(s)
      n == Len(q)
      full == n \div 4
      extra == IF n % 4 = 0 THEN 0 ELSE (n % 4) - 1
      at(i) == IF i <= n THEN q[i] ELSE 0
  IN [i \in 1..(3 * full + extra) |->
        LET g == (i - 1) \div 3
            k == ((i - 1) % 3) + 1
            a == at(4 * g + 1)
            c == at(4 * g + 2)
            d == at(4 * g + 3)
            e == at(4 * g + 4)
        IN  CASE k = 1 -> a * 4 + c \div 16
              [] k = 2 -> (c % 16) * 16 + d \div 4
              [] OTHER -> (d % 4) * 64 + e]

\* --------------------------------------------------------------- nacl
\* A small stand-in for tweetnacl's box with the properties the program
\* relies on: the key agreement is symmetric in the two key pairs, the
\* ciphertext is the plaintext behind an authenticator, and the
\* authenticator depends on the agreed key, the nonce and every ciphertext
\* byte.  Only the first byte of the keys generated here is not zero.

\* nacl.box.keyPair () for the secret scalar s
KeyPairOf(s) ==
  [pk |-> <<(9 * s) % 251>> \o Rep(KeyLength - 1, 0),
   sk |-> <<s>> \o Rep(KeyLength - 1, 0)]

\* the number a key's bytes stand for (little-endian, modulo 251)
RECURSIVE KeyValue(_, _)
KeyValue(b, i) ==
  IF i > Len(b) THEN 0 ELSE (b[i] + 5 * KeyValue(b, i + 1)) % 251

\* the key both sides agree on
BoxBefore(pk, sk) == (KeyValue(pk, 1) * KeyValue(sk, 1)) % 251

\* byte i of the stream that hides the plaintext, ns being the sum of the
\* nonce's bytes
Keystream(k, ns, i) == (k + ns + i) % 256

Authenticator(k, ns, body) ==
  LET t == (7 * k + 3 * ns + WSum(body, 1) + Len(body)) % 251
  IN  [j \in 1..OverheadLength |-> (t + j) % 256]

\* nacl throws on a key or a nonce of the wrong size
BadSizes(nonce, pk, sk) ==
  Len(pk) # KeyLength \/ Len(sk) # KeyLength \/ Len(nonce) # NonceLength

\* nacl.box (m, nonce, pk, sk), for arguments of the right sizes
NaclBox(m, nonce, pk, sk) ==
  LET k == BoxBefore(pk, sk)
      ns == Sum(nonce, 1)
      body == [i \in 1..Len(m) |-> (m[i] + Keystream(k, ns, i)) % 256]
  IN  Authenticator(k, ns, body) \o body

\* nacl.box.open (c, nonce, pk, sk), for arguments of the right sizes:
\* ok is FALSE where nacl returns null
NaclBoxOpen(c, nonce, pk, sk) ==
  LET k == BoxBefore(pk, sk)
      ns == Sum(nonce, 1)
      body == SubSeq(c, OverheadLength + 1, Len(c))
  IN  IF Len(c) < OverheadLength
         \/ SubSeq(c, 1, OverheadLength) # Authenticator(k, ns, body)
      THEN [ok |-> FALSE, m |-> <<>>]
      ELSE [ok |-> TRUE,
            m |-> [i \in 1..Len(body) |->
                     (body[i] + 256 - Keystream(k, ns, i)) % 256]]

\* --------------------------------------------------------- CryptoComm
\* a send that puts the nonce under 'data' and the box under 'nonce'
SendFrameSwapped(data, nonce, theirPk, ourSk) ==
  JSONStringify(B64Encode(nonce),
                B64Encode(NaclBox(data, nonce, theirPk, ourSk)))

\* a send that puts the message itself into the envelope
SendFramePlain(data, nonce, theirPk, ourSk) ==
  JSONStringify(B64Encode(data), B64Encode(nonce))

\* the frame CryptoComm.send (data) writes, with the nonce it drew
SendFrame(data, nonce, theirPk, ourSk) ==
  JSONStringify(B64Encode(NaclBox(data, nonce, theirPk, ourSk)),
                B64Encode(nonce))

\* a handler without the early return: what nacl.box.open gave is emitted
\* also when it is null
OnDataUnchecked(data, theirPk, ourSk) ==
  LET decodedData == JSONParse(data)
      d == Prop(decodedData, KeyData)
      n == Prop(decodedData, KeyNonce)
      encryptedData == B64Decode(d.v)
      nonce == B64Decode(n.v)
      decryptedData == NaclBoxOpen(encryptedData, nonce, theirPk, ourSk)
  IN  IF ~decodedData.ok THEN [r |-> "throw", m |-> <<>>]
      ELSE IF decodedData.kind = "null" THEN [r |-> "throw", m |-> <<>>]
      ELSE IF d.t # "str" \/ n.t # "str" THEN [r |-> "throw", m |-> <<>>]
      ELSE IF BadSizes(nonce, theirPk, ourSk) THEN [r |-> "throw", m |-> <<>>]
      ELSE [r |-> "message", m |-> decryptedData.m]

\* what CryptoComm._onData (data) does: "throw" (an exception leaves the
\* handler), "drop" (the early return) or "message" (the emit)
OnData(data, theirPk, ourSk) ==
  LET decodedData == JSONParse(data)
      d == Prop(decodedData, KeyData)
      n == Prop(decodedData, KeyNonce)
      encryptedData == B64Decode(d.v)
      nonce == B64Decode(n.v)
      decryptedData == NaclBoxOpen(encryptedData, nonce, theirPk, ourSk)
  IN  IF ~decodedData.ok THEN [r |-> "throw", m |-> <<>>]
      ELSE IF decodedData.kind = "null" THEN [r |-> "throw", m |-> <<>>]
      ELSE IF d.t # "str" \/ n.t # "str" THEN [r |-> "throw", m |-> <<>>]
      ELSE IF BadSizes(nonce, theirPk, ourSk) THEN [r |-> "throw", m |-> <<>>]
      ELSE IF ~decryptedData.ok THEN [r |-> "drop", m |-> <<>>]
      ELSE [r |-> "message", m |-> decryptedData.m]

\* an emitter that hands the newest event over before the older ones
EmitFirst(log, ev) == <<ev>> \o log

\* EventEmitter.emit: the listener sees the event after those before it
Emit(log, ev) == Append(log, ev)

\* ------------------------------------------------------------- inputs
\* the key pair the TrannyServer was built with
ServerKeys == KeyPairOf(2)
\* what a TrannyClient may be built with: its key pair's secret scalar and
\* the remote key it is given, the server's or another one
ClientInputs(c) ==
  IF c \in Exposed
  THEN {<<3, ServerKeys.pk>>, <<5, ServerKeys.pk>>, <<5, KeyPairOf(7).pk>>}
  ELSE {<<5, ServerKeys.pk>>}
\* a send: the message passed to send () and the nonce that
\* nacl.randomBytes (24) returns
SendInputs(c) ==
  IF c \in Exposed
  THEN {<<<<>>, Rep(NonceLength, 1)>>, <<<<200, 7>>, Rep(NonceLength, 1)>>,
        <<<<200, 7>>, Rep(NonceLength, 2)>>}
  ELSE {<<<<200, 7>>, Rep(NonceLength, 1)>>}
\* a send on a server channel: the message and the nonce drawn
ServerSendInputs == {<<<<9>>, Rep(NonceLength, 3)>>}
\* { "data" : "QUJD" }, an envelope without a nonce
NoNonceFrame ==
  <<LBRACE>> \o Quoted(KeyData) \o <<COLON>> \o Quoted(<<81, 85, 74, 68>>)
  \o <<RBRACE>>
\* the frames a peer that is no TrannyClient writes: a key that is too
\* short, somebody's public key, an envelope without a nonce, and a text
\* that is no JSON
RawFrames ==
  {<<1, 2, 3>>, KeyPairOf(5).pk, NoNonceFrame, <<104, 105>>}
\* the bits an attacker on the path flips in a frame: [byte, bit]
TamperSpots == {<<1, 0>>, <<10, 1>>, <<40, 0>>, <<45, 0>>, <<45, 1>>}

\* new CryptoComm (netConn, theirPk, ourSk): the public pk and the private
\* _theirPk and _ourSk
CryptoCommNew(theirPk, ourSk) ==
  [pk |-> theirPk, theirPk |-> theirPk, ourSk |-> ourSk]
\* no CryptoComm yet
NoComm == [pk |-> <<>>, theirPk |-> <<>>, ourSk |-> <<>>]
\* no key pair yet
NoKeys == [pk |-> <<>>, sk |-> <<>>]

\* no envelope under way
NoTrip ==
  [st |-> "idle", a |-> NoKeys, b |-> NoKeys, m |-> <<>>, frame |-> <<>>,
   x |-> <<>>, out |-> [r |-> "none", m |-> <<>>]]

\* -------------------------------------------------------------- state
VARIABLES
  peer,         \* c -> "none", "client" (a TrannyClient) or "raw"
  keyPair,      \* c -> the key pair the TrannyClient was built with
  cli,          \* c -> the TrannyClient, a CryptoComm
  wire,         \* c -> the frames written towards the server, not yet read
  sock,         \* c -> the server's socket: "none", "open", "closing"
                \*      (destroyed or ended, 'close' not yet emitted),
                \*      "closed", "errored"
  srv,          \* c -> "idle", "handshake" (NetConn built, the once
                \*      listener waiting) or "channel" (CryptoComm built)
  comm,         \* c -> the server CryptoComm's _theirPk and _ourSk
  crashed,      \* an exception left a handler of the server process
  netData,      \* c -> the frames the server's NetConn emitted as 'data'
  clientEv,     \* c -> the pk of the channels emitted as 'client'
  msgs,         \* c -> the payloads the server channel emitted as 'message'
  netDisc,      \* c -> 'disconnected' events of the server's NetConn
  commDisc,     \* c -> 'disconnected' events of the server's CryptoComm
  sent,         \* c -> the messages the TrannyClient was asked to send
  written,      \* c -> every frame put on the stream, as it travels
  handled,      \* c -> per frame emitted, the 'data' listeners called
  back,         \* c -> the frames the server wrote to the connection
  destroyCalls, \* c -> destroy () calls made on the server channel
  sends,        \* messages sent, by the clients and by the server
  raws,         \* frames written by raw peers
  tampered,     \* a frame was altered on the path
  rt            \* one envelope on its way from a sending channel to a
                \* receiving channel, outside any connection

vars ==
  <<peer, keyPair, cli, wire, sock, srv, comm, crashed, netData, clientEv, msgs,
    netDisc, commDisc, sent, written, handled, back, destroyCalls, sends,
    raws, tampered, rt>>

Init ==
  /\ peer = [c \in Conns |-> "none"]
  /\ keyPair = [c \in Conns |-> NoKeys]
  /\ cli = [c \in Conns |-> NoComm]
  /\ wire = [c \in Conns |-> <<>>]
  /\ sock = [c \in Conns |-> "none"]
  /\ srv = [c \in Conns |-> "idle"]
  /\ comm = [c \in Conns |-> NoComm]
  /\ crashed = FALSE
  /\ netData = [c \in Conns |-> <<>>]
  /\ clientEv = [c \in Conns |-> <<>>]
  /\ msgs = [c \in Conns |-> <<>>]
  /\ netDisc = [c \in Conns |-> 0]
  /\ commDisc = [c \in Conns |-> 0]
  /\ sent = [c \in Conns |-> <<>>]
  /\ written = [c \in Conns |-> <<>>]
  /\ handled = [c \in Conns |-> <<>>]
  /\ back = [c \in Conns |-> <<>>]
  /\ destroyCalls = [c \in Conns |-> 0]
  /\ sends = 0
  /\ raws = 0
  /\ tampered = FALSE
  /\ rt = NoTrip

\* the state of the server process
serverVars ==
  <<sock, srv, comm, crashed, netData, clientEv, msgs, netDisc, commDisc,
    handled, back, destroyCalls>>
\* the state of the peers and of the streams
peerVars == <<peer, keyPair, cli, wire, sent, written, sends, raws, tampered>>

\* ------------------------------------------------------------ TrannyClient
\* a constructor that does not announce the public key
ClientNoKey(kp) == <<>>

\* a constructor that announces the public key as base64 text
ClientKeyAsText(kp) == <<B64Encode(kp.pk)>>

\* what the constructor writes before the channel exists: the public key
ClientFirstFrames(kp) == <<kp.pk>>

\* new TrannyClient (host, port, keyPair, theirPk): the socket is created,
\* the public key is written to the stream (it queues until the socket is
\* connected) and the client is a CryptoComm from then on
ClientNew(c, s, theirPk) ==
  /\ ~crashed
  /\ peer[c] = "none"
  /\ peer' = [peer EXCEPT ![c] = "client"]
  /\ keyPair' = [keyPair EXCEPT ![c] = KeyPairOf(s)]
  /\ cli' = [cli EXCEPT ![c] = CryptoCommNew(theirPk, KeyPairOf(s).sk)]
  /\ wire' = [wire EXCEPT ![c] = @ \o ClientFirstFrames(KeyPairOf(s))]
  /\ written' = [written EXCEPT ![c] = @ \o ClientFirstFrames(KeyPairOf(s))]
  /\ UNCHANGED <<sent, sends, raws, tampered>>
  /\ UNCHANGED serverVars
  /\ UNCHANGED rt

\* client.send (m), the nonce drawn being n
ClientSend(c, m, n) ==
  /\ ~crashed
  /\ peer[c] = "client"
  /\ sock[c] \in {"none", "open"}
  /\ sends < MaxSend
  /\ LET f == SendFrame(m, n, cli[c].theirPk, cli[c].ourSk) IN
       /\ wire' = [wire EXCEPT ![c] = Append(@, f)]
       /\ written' = [written EXCEPT ![c] = Append(@, f)]
  /\ sent' = [sent EXCEPT ![c] = Append(@, m)]
  /\ sends' = sends + 1
  /\ UNCHANGED <<peer, keyPair, cli, raws, tampered>>
  /\ UNCHANGED serverVars
  /\ UNCHANGED rt

\* a peer that is no TrannyClient connects and writes a frame
RawWrite(c, f) ==
  /\ ~crashed
  /\ c \in Exposed
  /\ peer[c] \in {"none", "raw"}
  /\ sock[c] \in {"none", "open"}
  /\ raws < MaxRaw
  /\ peer' = [peer EXCEPT ![c] = "raw"]
  /\ wire' = [wire EXCEPT ![c] = Append(@, f)]
  /\ written' = [written EXCEPT ![c] = Append(@, f)]
  /\ raws' = raws + 1
  /\ UNCHANGED <<keyPair, cli, sent, sends, tampered>>
  /\ UNCHANGED serverVars
  /\ UNCHANGED rt

\* a peer that is no TrannyClient connects and writes nothing
RawConnect(c) ==
  /\ ~crashed
  /\ c \in Exposed
  /\ peer[c] = "none"
  /\ peer' = [peer EXCEPT ![c] = "raw"]
  /\ UNCHANGED <<keyPair, cli, wire, sent, written, sends, raws, tampered>>
  /\ UNCHANGED serverVars
  /\ UNCHANGED rt

\* an attacker on the path flips one bit of the frame about to arrive
Tamper(c, spot) ==
  /\ ~crashed
  /\ c \in Exposed
  /\ ~tampered
  /\ sock[c] = "open"
  /\ wire[c] # <<>>
  /\ spot[1] <= Len(wire[c][1])
  /\ LET f == [wire[c][1] EXCEPT ![spot[1]] = FlipBit(@, spot[2])]
         at == Len(written[c]) - Len(wire[c]) + 1
     IN  /\ wire' = [wire EXCEPT ![c][1] = f]
         /\ written' = [written EXCEPT ![c][at] = f]
  /\ tampered' = TRUE
  /\ UNCHANGED <<peer, keyPair, cli, sent, sends, raws>>
  /\ UNCHANGED serverVars
  /\ UNCHANGED rt

\* ------------------------------------------------------------ TrannyServer
\* a bootstrap that keeps the announced key in one place for all
\* connections: the key of the first channel is the key of every channel
BootstrapShared(c, data) ==
  IF \E d \in Conns \ {c} : srv[d] = "channel"
  THEN comm[CHOOSE d \in Conns \ {c} : srv[d] = "channel"].theirPk
  ELSE data

\* the key the bootstrap binds the new channel to: the first frame
BootstrapKey(c, data) == data

\* a destroy that tears the socket down again on every call
NetConnDestroyAgain(s) == "closing"

\* NetConn.destroy (): socket.destroy (), which does nothing on a socket
\* that is destroyed already
NetConnDestroy(s) == IF s = "open" THEN "closing" ELSE s

\* net.createServer's callback: a NetConn is built on the accepted socket
\* and the first 'data' is awaited
Accept(c) ==
  /\ ~crashed
  /\ peer[c] # "none"
  /\ sock[c] = "none"
  /\ sock' = [sock EXCEPT ![c] = "open"]
  /\ srv' = [srv EXCEPT ![c] = "handshake"]
  /\ UNCHANGED <<comm, crashed, netData, clientEv, msgs, netDisc, commDisc,
                 handled, back, destroyCalls>>
  /\ UNCHANGED peerVars
  /\ UNCHANGED rt

\* the decoder takes the next frame out of the stream of an open socket
FrameRead(c) ==
  /\ ~crashed
  /\ sock[c] = "open"
  /\ wire[c] # <<>>
  /\ wire' = [wire EXCEPT ![c] = Tail(@)]

\* a bootstrap that answers the announced key with the server's own
ServerHello(data) == <<ServerKeys.pk>>

\* what the bootstrap writes to the connection: nothing
BootstrapWrites(data) == <<>>

\* a bootstrap registered with on, which stays registered
DataListenersOn(s) ==
  IF s = "handshake" THEN <<"bootstrap">>
  ELSE IF s = "channel" THEN <<"bootstrap", "channel">>
  ELSE <<>>

\* the 'data' listeners of the NetConn of a connection: the bootstrap,
\* registered with once and so removed when it is called, then the
\* listener CryptoComm._listen registers
DataListeners(s) ==
  IF s = "handshake" THEN <<"bootstrap">>
  ELSE IF s = "channel" THEN <<"channel">>
  ELSE <<>>

\* an emit that also calls what is registered while it runs
EmitToLive(ls, added) == ls \o added

\* EventEmitter.emit calls the listeners registered when it was called; a
\* listener added while it runs is not called for this event
EmitTo(ls, added) == ls

\* a handler that rebinds the channel to what it received
CommRebound(ch, data) == [ch EXCEPT !.theirPk = data]

\* the channel after _onData: the handler assigns none of its fields
CommAfterOnData(ch, data) == ch

\* the decoder yields the next frame: NetConn emits 'data'.  The bootstrap
\* listener builds the CryptoComm, whose constructor registers the
\* channel's listener, and emits 'client'; the channel's listener runs
\* CryptoComm._onData
Deliver(c) ==
  /\ FrameRead(c)
  /\ LET data == Head(wire[c])
         before == DataListeners(srv[c])
         boot == \E i \in DOMAIN before : before[i] = "bootstrap"
         called == EmitTo(before, IF boot THEN <<"channel">> ELSE <<>>)
         chan == \E i \in DOMAIN called : called[i] = "channel"
         ch == IF boot
               THEN CryptoCommNew(BootstrapKey(c, data), ServerKeys.sk)
               ELSE comm[c]
         out == IF chan
                THEN OnData(data, ch.theirPk, ch.ourSk)
                ELSE [r |-> "none", m |-> <<>>]
     IN  /\ netData' = [netData EXCEPT ![c] = Emit(@, data)]
         /\ handled' = [handled EXCEPT ![c] = Append(@, called)]
         /\ comm' = [comm EXCEPT ![c] =
                       IF chan THEN CommAfterOnData(ch, data) ELSE ch]
         /\ clientEv' = [clientEv EXCEPT ![c] =
                           IF boot THEN Emit(@, ch.pk) ELSE @]
         /\ srv' = [srv EXCEPT ![c] = "channel"]
         /\ crashed' = (out.r = "throw")
         /\ msgs' = [msgs EXCEPT ![c] =
                       IF out.r = "message" THEN Emit(@, out.m) ELSE @]
         /\ back' = [back EXCEPT ![c] =
                       IF boot THEN @ \o BootstrapWrites(data) ELSE @]
  /\ UNCHANGED <<sock, netDisc, commDisc, destroyCalls>>
  /\ UNCHANGED <<peer, keyPair, cli, sent, written, sends, raws, tampered>>
  /\ UNCHANGED rt

\* comm.send (m) on a channel the server emitted, the nonce drawn being n.
\* With a bound key of another length than KeyLength nacl.box throws in the
\* caller and nothing is written
ServerSend(c, m, n) ==
  /\ ~crashed
  /\ srv[c] = "channel"
  /\ sock[c] = "open"
  /\ sends < MaxSend
  /\ ~BadSizes(n, comm[c].theirPk, comm[c].ourSk)
  /\ back' = [back EXCEPT ![c] =
                Append(@, SendFrame(m, n, comm[c].theirPk, comm[c].ourSk))]
  /\ sends' = sends + 1
  /\ UNCHANGED <<sock, srv, comm, crashed, netData, clientEv, msgs, netDisc,
                 commDisc, handled, destroyCalls>>
  /\ UNCHANGED <<peer, keyPair, cli, wire, sent, written, raws, tampered>>
  /\ UNCHANGED rt

\* the peer ends the stream, everything it wrote having been read
PeerEnd(c) ==
  /\ ~crashed
  /\ c \in Exposed
  /\ sock[c] = "open"
  /\ wire[c] = <<>>
  /\ sock' = [sock EXCEPT ![c] = "closing"]
  /\ UNCHANGED <<srv, comm, crashed, netData, clientEv, msgs, netDisc,
                 commDisc, handled, back, destroyCalls>>
  /\ UNCHANGED peerVars
  /\ UNCHANGED rt

\* the socket emits 'close': NetConn emits 'disconnected' and the
\* CryptoComm listening on it emits 'disconnected'
CloseEvent(c) ==
  /\ ~crashed
  /\ sock[c] = "closing"
  /\ sock' = [sock EXCEPT ![c] = "closed"]
  /\ netDisc' = [netDisc EXCEPT ![c] = @ + 1]
  /\ commDisc' = [commDisc EXCEPT ![c] = IF srv[c] = "channel" THEN @ + 1 ELSE @]
  /\ UNCHANGED <<srv, comm, crashed, netData, clientEv, msgs, handled, back,
                 destroyCalls>>
  /\ UNCHANGED peerVars
  /\ UNCHANGED rt

\* the socket emits 'error' (a reset): nothing listens for it, so the
\* EventEmitter throws and the exception leaves the event loop
SocketError(c) ==
  /\ ~crashed
  /\ c \in Exposed
  /\ sock[c] = "open"
  /\ sock' = [sock EXCEPT ![c] = "errored"]
  /\ crashed' = TRUE
  /\ UNCHANGED <<srv, comm, netData, clientEv, msgs, netDisc, commDisc,
                 handled, back, destroyCalls>>
  /\ UNCHANGED peerVars
  /\ UNCHANGED rt

\* comm.destroy () on a channel the server emitted
Destroy(c) ==
  /\ ~crashed
  /\ c \in Exposed
  /\ srv[c] = "channel"
  /\ destroyCalls[c] < MaxDestroy
  /\ destroyCalls' = [destroyCalls EXCEPT ![c] = @ + 1]
  /\ sock' = [sock EXCEPT ![c] = NetConnDestroy(@)]
  /\ UNCHANGED <<srv, comm, crashed, netData, clientEv, msgs, netDisc,
                 commDisc, handled, back>>
  /\ UNCHANGED peerVars
  /\ UNCHANGED rt

Next ==
  \/ \E c \in Conns : \E in \in ClientInputs(c) : ClientNew(c, in[1], in[2])
  \/ \E c \in Conns : \E in \in SendInputs(c) : ClientSend(c, in[1], in[2])
  \/ \E c \in Conns : RawConnect(c)
  \/ \E c \in Conns, f \in RawFrames : RawWrite(c, f)
  \/ \E c \in Conns, spot \in TamperSpots : Tamper(c, spot)
  \/ \E c \in Conns : Accept(c)
  \/ \E c \in Conns : Deliver(c)
  \/ \E c \in Conns : \E in \in ServerSendInputs : ServerSend(c, in[1], in[2])
  \/ \E c \in Conns : PeerEnd(c)
  \/ \E c \in Conns : CloseEvent(c)
  \/ \E c \in Conns : SocketError(c)
  \/ \E c \in Conns : Destroy(c)

Spec == Init /\ [][Next]_vars

\* the stream and the event loop do not stall: an accepted connection is
\* set up and a frame that can be read is read.  Deliver (c) is the only
\* step of Next that takes a frame out of wire[c], so the second condition
\* is weak fairness of Deliver (c)
FairSpec ==
  Spec /\ \A c \in Conns : WF_vars(Accept(c)) /\ WF_wire(FrameRead(c))

\* ------------------------------------------- one envelope, end to end
\* the secret scalars of the key pairs the two ends are built with
Seeds == {1, 2, 3, 5}
\* the messages passed to send ()
TripMsgs == {<<>>, <<0>>, <<200, 7>>, <<255, 1, 128>>}
\* the values nacl.randomBytes (24) returns
TripNonces == {Rep(NonceLength, 1), Rep(NonceLength, 254)}
\* the remote keys the receiving channel may be bound to, the sender's key
\* pair being kp: its public key, other parties' public keys, its public
\* key with a bit altered, and its public key cut short
BoundKeys(kp) ==
  IF kp = NoKeys THEN {}
  ELSE {kp.pk, [kp.pk EXCEPT ![1] = FlipBit(@, 0)],
        [kp.pk EXCEPT ![KeyLength] = FlipBit(@, 3)],
        SubSeq(kp.pk, 1, KeyLength - 1)}
       \cup {KeyPairOf(s).pk : s \in Seeds}

\* a channel built with (B.pk, A.sk) sends m, the nonce drawn being n
Seal(a, b, m, n) ==
  /\ rt.st = "idle"
  /\ a # b
  /\ rt' = [rt EXCEPT !.st = "sealed", !.a = KeyPairOf(a), !.b = KeyPairOf(b),
                      !.m = m,
                      !.frame = SendFrame(m, n, KeyPairOf(b).pk,
                                          KeyPairOf(a).sk)]
  /\ UNCHANGED <<serverVars, peerVars>>

\* a channel built with (x, B.sk) receives the frame
Open(x) ==
  /\ rt.st = "sealed"
  /\ LET ch == CryptoCommNew(x, rt.b.sk) IN
       rt' = [rt EXCEPT !.st = "opened", !.x = ch.theirPk,
                        !.out = OnData(rt.frame, ch.theirPk, ch.ourSk)]
  /\ UNCHANGED <<serverVars, peerVars>>

BoxNext ==
  \/ \E a \in Seeds, b \in Seeds, m \in TripMsgs, n \in TripNonces :
       Seal(a, b, m, n)
  \/ \E x \in BoundKeys(rt.a) : Open(x)

BoxSpec == Init /\ [][BoxNext]_vars

\* ------------------------------------------------------------- claims
IsPrefix(a, b) == Len(a) <= Len(b) /\ a = SubSeq(b, 1, Len(a))

\* a frame that is no parseable envelope, or lacks 'data' or 'nonce'
Malformed(data) ==
  LET v == JSONParse(data) IN
  \/ ~v.ok
  \/ Prop(v, KeyData).t = "undefined"
  \/ Prop(v, KeyNonce).t = "undefined"

\* an envelope with both fields that the channel ch cannot open
OpenFails(data, ch) ==
  ~Malformed(data) /\ OnData(data, ch.theirPk, ch.ourSk).r # "message"

\* the server channel of c handles a frame in this step
Handles(c) == srv[c] = "channel" /\ netData'[c] # netData[c]

\* C1: a frame whose box-open fails (wrong key, altered ciphertext or
\* nonce) raises no event, leaves the channel's keys and connection as they
\* were and leaves the process running, so that later frames are handled.
C1_SilentDrop ==
  [][\A c \in Conns :
       (Handles(c) /\ OpenFails(Head(wire[c]), comm[c])) =>
         /\ ~crashed'
         /\ msgs'[c] = msgs[c]
         /\ clientEv' = clientEv /\ netDisc' = netDisc /\ commDisc' = commDisc
         /\ comm'[c] = comm[c] /\ sock'[c] = sock[c] /\ srv'[c] = srv[c]]_vars

\* the payload of a frame if the channel ch opens it, as a sequence of at
\* most one message
Plaintext(frame, ch) ==
  LET out == OnData(frame, ch.theirPk, ch.ourSk) IN
  IF out.r = "message" THEN <<out.m>> ELSE <<>>

\* C2: the frame NetConn hands over is the next frame of the stream, the
\* channel's 'message' events grow by the plaintext of that frame, once and
\* at the end, if the channel opens it, and they change at no other step:
\* the 'message' events are the plaintexts of the opened frames in stream
\* order, none repeated, batched or reordered.
C2_MessageOrder ==
  [][\A c \in Conns :
       /\ netData'[c] # netData[c] =>
            netData'[c] = Append(netData[c], Head(wire[c]))
       /\ msgs'[c] = IF Handles(c)
                     THEN msgs[c] \o Plaintext(Head(wire[c]), comm[c])
                     ELSE msgs[c]]_vars

\* two different messages were delivered on one connection, in send order
C2_Witness ==
  \E c \in Conns :
    /\ Len(msgs[c]) = 2 /\ msgs[c][1] # msgs[c][2]
    /\ msgs[c] = sent[c]

\* the scenario of C3: a TrannyClient given the server's public key
Scenario(c) == peer[c] = "client" /\ cli[c].theirPk = ServerKeys.pk

\* the connection of c was altered, closed or destroyed, or the server
\* process is gone
Interfered(c) ==
  \/ crashed
  \/ tampered /\ c \in Exposed
  \/ sock[c] \in {"closing", "closed", "errored"}
  \/ destroyCalls[c] > 0

\* C3: for a TrannyClient with key pair (Pa, Sa) that was given the
\* server's key Pb, the one channel the server emits for its connection is
\* bound to Pa, what that channel delivers is what the client sent, in send
\* order, and every message the client sent (before or after the socket
\* connected) is eventually delivered, the connection staying up and
\* unaltered and the server process running: from every moment on, a moment
\* comes at which all the client has sent by then has been delivered.
C3_Handshake ==
  /\ [](\A c \in Conns :
          (Scenario(c) /\ ~Interfered(c)) =>
            /\ srv[c] = "channel" =>
                 (comm[c].theirPk = keyPair[c].pk
                  /\ clientEv[c] = <<keyPair[c].pk>>)
            /\ IsPrefix(msgs[c], sent[c]))
  /\ \A c \in Conns :
       Scenario(c) ~> (Interfered(c) \/ msgs[c] = sent[c])

\* two messages sent before the server accepted the connection were
\* delivered
C3_Witness ==
  \E c \in Conns :
    /\ Scenario(c) /\ ~Interfered(c)
    /\ Len(sent[c]) = 2 /\ msgs[c] = sent[c]
    /\ Len(written[c]) = 3

\* C4: a frame that is no parseable envelope, or lacks a field, closes the
\* channel with an error of its own: the connection is destroyed, the
\* process runs on and nothing later is handled on the channel.
C4_MalformedClosesChannel ==
  \A c \in Conns : \A i \in 2..Len(netData[c]) :
    Malformed(netData[c][i]) =>
      /\ ~crashed
      /\ sock[c] \in {"closing", "closed"}
      /\ i = Len(netData[c])

\* what the server holds for connection c
ConnState(c) ==
  <<sock[c], srv[c], comm[c], netData[c], clientEv[c], msgs[c], netDisc[c],
    commDisc[c], destroyCalls[c]>>

\* a malformed frame, a failed decryption or a transport error on c
Fault(c) ==
  \/ Handles(c)
     /\ OnData(Head(wire[c]), comm[c].theirPk, comm[c].ourSk).r # "message"
  \/ sock[c] = "open" /\ sock'[c] # "open"

\* C5: a fault on one connection never ends the process and never changes
\* what the server holds for another connection.
C5_ErrorIsolation ==
  [][\A c \in Conns :
       Fault(c) =>
         /\ ~crashed'
         /\ \A d \in Conns \ {c} : ConnState(d)' = ConnState(d)]_vars

\* C6: a first frame that is not KeyLength bytes long yields no 'client'
\* event and closes the connection.
C6_HandshakeValidated ==
  \A c \in Conns :
    (netData[c] # <<>> /\ Len(netData[c][1]) # KeyLength) =>
      /\ clientEv[c] = <<>>
      /\ sock[c] \in {"closing", "closed"}

\* C7: a socket that ended or failed has produced exactly one
\* 'disconnected' on its NetConn and exactly one on the CryptoComm built on
\* it, and after a 'disconnected' nothing more is emitted on the connection.
C7_OneDisconnected ==
  [][\A c \in Conns :
       /\ sock'[c] \in {"closed", "errored"} =>
            /\ netDisc'[c] = 1
            /\ srv'[c] = "channel" => commDisc'[c] = 1
       /\ netDisc[c] >= 1 =>
            /\ netData'[c] = netData[c] /\ msgs'[c] = msgs[c]
            /\ netDisc'[c] = netDisc[c] /\ commDisc'[c] = commDisc[c]]_vars

\* C8: a destroy () after the first raises no error and changes nothing of
\* the connection.
C8_DestroyIdempotent ==
  [][\A c \in Conns :
       (destroyCalls[c] >= 1 /\ destroyCalls'[c] = destroyCalls[c] + 1) =>
         /\ ~crashed'
         /\ sock'[c] = sock[c] /\ srv'[c] = srv[c] /\ comm'[c] = comm[c]
         /\ netData'[c] = netData[c] /\ msgs'[c] = msgs[c]
         /\ clientEv'[c] = clientEv[c]
         /\ netDisc'[c] = netDisc[c] /\ commDisc'[c] = commDisc[c]]_vars

\* destroy () was called again after the socket had closed
C8_Witness ==
  \E c \in Conns :
    destroyCalls[c] = 2 /\ sock[c] = "closed" /\ netDisc[c] = 1 /\ ~crashed

\* C9: after destroy () the channel emits neither 'message' nor
\* 'disconnected'.
C9_NoEventAfterDestroy ==
  [][\A c \in Conns :
       destroyCalls[c] >= 1 =>
         msgs'[c] = msgs[c] /\ commDisc'[c] = commDisc[c]]_vars

\* C10: each channel is bound to the key announced on its own connection,
\* the frames a connection's NetConn emits are the frames written on that
\* connection, and every message of a channel is the plaintext of a frame
\* written on its own connection.
C10_IndependentSessions ==
  \A c \in Conns :
    /\ IsPrefix(netData[c], written[c])
    /\ srv[c] = "channel" =>
         /\ comm[c].theirPk = written[c][1]
         /\ clientEv[c] = <<written[c][1]>>
    /\ \A i \in 1..Len(msgs[c]) : \E j \in 2..Len(written[c]) :
         OnData(written[c][j], comm[c].theirPk, comm[c].ourSk)
           = [r |-> "message", m |-> msgs[c][i]]

\* two clients with different keys each had a message delivered
C10_Witness ==
  /\ \A c \in Conns : peer[c] = "client" /\ srv[c] = "channel" /\ Len(msgs[c]) = 1
  /\ comm[1].theirPk # comm[2].theirPk
  /\ msgs[1] # msgs[2]

\* C12: a channel bound to a remote key other than the public key of the
\* key pair the sender encrypts with emits no 'message' for the sender's
\* frame, whatever the message.
C12_WrongKeyRejected ==
  (rt.st = "opened" /\ rt.x # rt.a.pk) => rt.out.r # "message"

\* a frame carrying a non-empty message was dropped by a channel bound to
\* another party's key of the right length
C12_Witness ==
  /\ rt.st = "opened" /\ rt.x # rt.a.pk /\ Len(rt.x) = KeyLength
  /\ Len(rt.m) = 3 /\ rt.out.r = "drop"

\* C13: the frame send (m) writes on a channel built with (B.pk, A.sk),
\* received by a channel built with (A.pk, B.sk), A and B being different
\* key pairs, yields the one event 'message' with payload m.
C13_RoundTrip ==
  (rt.st = "opened" /\ rt.x = rt.a.pk) =>
    rt.out = [r |-> "message", m |-> rt.m]

\* a three-byte message and the empty message made the trip
C13_Witness ==
  /\ rt.st = "opened" /\ rt.x = rt.a.pk /\ rt.a # rt.b
  /\ rt.out.r = "message" /\ Len(rt.out.m) = 3 /\ rt.out.m = rt.m

\* C14: a TrannyClient has written its public key, as the KeyLength raw
\* bytes and not as an envelope, when its constructor returns, so before
\* any send; every frame it writes afterwards is appended behind it and is
\* an envelope.
C14_KeyFirst ==
  /\ [](\A c \in Conns : peer[c] = "client" => written[c] # <<>>)
  /\ [][\A c \in Conns :
          (peer'[c] = "client" /\ Len(written'[c]) > Len(written[c])) =>
            IF peer[c] = "none"
            THEN /\ written'[c] = <<keyPair'[c].pk>>
                 /\ Len(written'[c][1]) = KeyLength
                 /\ ~JSONParse(written'[c][1]).ok
            ELSE /\ written[c] # <<>>
                 /\ SubSeq(written'[c], 1, Len(written[c])) = written[c]
                 /\ Len(written'[c]) = Len(written[c]) + 1
                 /\ ~Malformed(written'[c][Len(written'[c])])]_vars

\* a client that sent twice before its socket was accepted: the key, then
\* two envelopes
C14_Witness ==
  \E c \in Conns :
    /\ peer[c] = "client" /\ sock[c] = "none" /\ Len(sent[c]) = 2
    /\ Len(written[c]) = 3 /\ written[c][1] = keyPair[c].pk

\* C15: a server channel holds the remote key, the secret key and the
\* connection its constructor was given (the first frame of that connection
\* and the server's secret key) for as long as it exists, it seals what it
\* sends and opens what it receives with them, and a TrannyClient likewise
\* keeps the keys it was built with.
C15_FixedTriple ==
  /\ [](\A c \in Conns :
          srv[c] = "channel" =>
            comm[c] = CryptoCommNew(netData[c][1], ServerKeys.sk))
  /\ [][\A c \in Conns :
          /\ srv[c] = "channel" => comm'[c] = comm[c]
          /\ peer[c] = "client" =>
               cli'[c] = cli[c] /\ keyPair'[c] = keyPair[c]
          /\ Handles(c) =>
               msgs'[c] = msgs[c] \o
                 Plaintext(Head(wire[c]),
                           CryptoCommNew(netData[c][1], ServerKeys.sk))
          /\ back'[c] # back[c] =>
               \E in \in ServerSendInputs :
                 back'[c] = Append(back[c],
                                   SendFrame(in[1], in[2], netData[c][1],
                                             ServerKeys.sk))]_vars

\* a channel that received a frame it could not open, sent a message, was
\* destroyed and saw its socket close
C15_Witness ==
  \E c \in Conns :
    /\ srv[c] = "channel" /\ sock[c] = "closed" /\ destroyCalls[c] >= 1
    /\ Len(netData[c]) = 2 /\ msgs[c] = <<>> /\ back[c] # <<>>
    /\ comm[c].theirPk = keyPair[c].pk

\* C17: of the frames a server NetConn emits, the first is handled by the
\* bootstrap listener alone, and not by the channel's listener that is
\* registered while it is dispatched; every later frame is handled by the
\* channel's listener alone.
C17_HandshakeConsumedOnce ==
  \A c \in Conns :
    /\ Len(handled[c]) = Len(netData[c])
    /\ \A i \in 1..Len(handled[c]) :
         handled[c][i] = IF i = 1 THEN <<"bootstrap">> ELSE <<"channel">>

\* a connection on which the key and two envelopes arrived and the
\* envelopes were delivered as messages
C17_Witness ==
  \E c \in Conns :
    Len(handled[c]) = 3 /\ Len(msgs[c]) = 2 /\ Len(clientEv[c]) = 1

\* C18: a connection has one 'client' event once its first frame has
\* arrived and none before, so none if it closes without a frame.
C18_OneClientEvent ==
  \A c \in Conns :
    Len(clientEv[c]) = IF netData[c] = <<>> THEN 0 ELSE 1

\* one connection closed without a frame, no 'client' for it, while
\* another received three frames and has its one 'client'
C18_Witness ==
  \E c, d \in Conns :
    /\ sock[c] = "closed" /\ netData[c] = <<>> /\ clientEv[c] = <<>>
    /\ netDisc[c] = 1
    /\ Len(netData[d]) = 3 /\ Len(clientEv[d]) = 1

\* C19: whatever bytes k arrive as the first frame of a connection, the
\* step that delivers them emits the channel with remote key and pk equal
\* to k, and the server has written nothing to the connection by then: no
\* challenge is sent and no further frame awaited.
C19_NoProofOfPossession ==
  /\ [](\A c \in Conns :
          netData[c] # <<>> =>
            /\ srv[c] = "channel"
            /\ comm[c].theirPk = netData[c][1] /\ comm[c].pk = netData[c][1]
            /\ clientEv[c] = <<netData[c][1]>>)
  /\ [][\A c \in Conns :
          (netData[c] = <<>> /\ netData'[c] # <<>>) =>
            /\ clientEv'[c] = <<Head(wire[c])>>
            /\ back[c] = <<>> /\ back'[c] = <<>>]_vars

\* a party that is no TrannyClient sent three bytes and got a channel
\* bound to them
C19_Witness ==
  \E c \in Conns :
    /\ peer[c] = "raw" /\ Len(netData[c]) = 1
    /\ Len(netData[c][1]) # KeyLength
    /\ clientEv[c] = <<netData[c][1]>> /\ back[c] = <<>>

\* an envelope with both fields as base64 texts, whose nonce is
\* NonceLength bytes and whose data has the length of a box of n bytes
IsEnvelopeOf(f, n) ==
  LET v == JSONParse(f)
      d == Prop(v, KeyData)
      nc == Prop(v, KeyNonce)
  IN  /\ ~Malformed(f)
      /\ d.t = "str" /\ nc.t = "str"
      /\ B64Encode(B64Decode(d.v)) = d.v
      /\ B64Encode(B64Decode(nc.v)) = nc.v
      /\ Len(B64Decode(nc.v)) = NonceLength
      /\ Len(B64Decode(d.v)) = n + OverheadLength

\* C20: the server writes nothing to a connection but what send () writes,
\* and what send () writes, on a server channel or on a TrannyClient, is
\* one envelope holding the box of the message and the nonce; the one
\* frame in the clear is the key a TrannyClient writes first.
C20_OnlyKeyInClear ==
  [][\A c \in Conns :
       /\ back'[c] # back[c] =>
            \E in \in ServerSendInputs :
              /\ Len(back'[c]) = Len(back[c]) + 1
              /\ SubSeq(back'[c], 1, Len(back[c])) = back[c]
              /\ IsEnvelopeOf(back'[c][Len(back'[c])], Len(in[1]))
       /\ sent'[c] # sent[c] =>
            /\ Len(written[c]) >= 1
            /\ Len(written'[c]) = Len(written[c]) + 1
            /\ IsEnvelopeOf(written'[c][Len(written'[c])],
                            Len(sent'[c][Len(sent'[c])]))]_vars

\* a client and the server channel of its connection each sent a message
C20_Witness ==
  \E c \in Conns :
    /\ Len(sent[c]) = 1 /\ Len(written[c]) = 2 /\ Len(back[c]) = 1
    /\ IsEnvelopeOf(back[c][1], 1) /\ ~tampered

====
